---- MODULE Spec2Model ----
(***************************************************************************)
(* The HPKE encryption context of rust-hpke (src/src/aead.rs): the sender  *)
(* context AeadCtxS with seal, the receiver context AeadCtxR with open,    *)
(* the exporter, the sequence counter increment_seq and the nonce          *)
(* derivation mix_nonce.                                                   *)
(*                                                                         *)
(* Scaling.  A byte has ByteBits bits instead of 8 and a nonce (and so a   *)
(* sequence counter) has Nn bytes instead of 12, so that a context can be  *)
(* driven from creation to overflow.  The code is generic in both: it only *)
(* compares a byte with u8::MAX and iterates over the array.               *)
(*                                                                         *)
(* The AEAD primitive (the aead crate) and HKDF are external.  The AEAD is *)
(* modelled as an ideal one: a keystream cipher that keeps the length of   *)
(* the buffer, and a tag that is the term Mac(key, nonce, aad, ct), which  *)
(* verifies only against the very same four values.                        *)
(*                                                                         *)
(* The two contexts are created from one key schedule.  The transport      *)
(* between them holds the latest sealed message; the receiver is handed    *)
(* that message (once, again, or after its predecessors were lost), the    *)
(* message under other associated data, or a forgery.                      *)
(*                                                                         *)
(* Further down: the X25519 keys and the AEAD tag with marshal, unmarshal  *)
(* and kex (src/src/kex/x25519.rs; specification KexSpec), where bytes     *)
(* keep their eight bits and the encodings their sizes, and the single-    *)
(* shot calls single_shot_seal and single_shot_open                        *)
(* (src/src/single_shot.rs; specification SingleShotSpec).  The curve      *)
(* arithmetic (x25519_dalek) is external and modelled in a small cyclic    *)
(* group; the KEM and the key schedule are not among the source files and  *)
(* are modelled as the specification describes them.                       *)
(***************************************************************************)
EXTENDS Integers, Sequences, FiniteSets, TLC

\* ------------------------------------------------------------------ bounds
\* Bits of a byte (8 in the program).
ByteBits == 1
\* Bytes of an AEAD nonce and of the sequence counter (12 in the program).
Nn == 2
\* How many messages the sender may be ahead of the receiver.
MaxLag == 2
\* Longest buffer the AEAD primitive accepts (its P_MAX, scaled).
AeadPMax == 1

\* ------------------------------------------------------------ byte helpers
RECURSIVE Pow2(_)
Pow2(n) == IF n = 0 THEN 1 ELSE 2 * Pow2(n - 1)

\* u8::MAX
U8_MAX == Pow2(ByteBits) - 1

Byte == 0..U8_MAX

\* The ^ operator on two bytes.
RECURSIVE BitXor(_, _)
BitXor(a, b) ==
    IF a = 0 THEN b
    ELSE IF b = 0 THEN a
    ELSE (((a % 2) + (b % 2)) % 2) + (2 * BitXor(a \div 2, b \div 2))

\* A byte string read as a big-endian unsigned integer.
RECURSIVE BigEndian(_)
BigEndian(arr) ==
    IF Len(arr) = 0 THEN 0
    ELSE arr[Len(arr)] + ((U8_MAX + 1) * BigEndian(SubSeq(arr, 1, Len(arr) - 1)))

\* Number of values of a sequence counter: 2^(8*Nn) in the program.
SeqSpace == Pow2(ByteBits * Nn)

\* --------------------------------------------------------- increment_seq
\* The loop of increment_seq from byte i down to the first byte: a byte below
\* the max is incremented and the loop returns Ok; a byte at the max is
\* cleared and the loop goes on; falling off the end is Err.
RECURSIVE increment_from(_, _)
increment_from(arr, i) ==
    IF i = 0 THEN [ok |-> FALSE, arr |-> arr]
    ELSE IF arr[i] < U8_MAX
         THEN [ok |-> TRUE, arr |-> [arr EXCEPT ![i] = @ + 1]]
         ELSE increment_from([arr EXCEPT ![i] = 0], i - 1)

\* increment_seq without the clearing of a byte that is at the max.
RECURSIVE increment_from_no_clear(_, _)
increment_from_no_clear(arr, i) ==
    IF i = 0 THEN [ok |-> FALSE, arr |-> arr]
    ELSE IF arr[i] < U8_MAX
         THEN [ok |-> TRUE, arr |-> [arr EXCEPT ![i] = @ + 1]]
         ELSE increment_from_no_clear(arr, i - 1)

increment_seq_no_clear(arr) == increment_from_no_clear(arr, Len(arr))

\* increment_seq without the carry: a byte at the max wraps to zero and the
\* call returns Ok.
increment_seq_no_carry(arr) ==
    IF Len(arr) = 0 THEN [ok |-> FALSE, arr |-> arr]
    ELSE [ok |-> TRUE,
          arr |-> [arr EXCEPT ![Len(arr)] = IF @ < U8_MAX THEN @ + 1 ELSE 0]]

increment_seq(arr) == increment_from(arr, Len(arr))

\* ------------------------------------------------------------- mix_nonce
\* mix_nonce that XORs only the first byte of seq into the base nonce.
mix_nonce_first_byte(base_nonce, seq) ==
    [i \in 1..Len(base_nonce) |->
        IF i = 1 THEN BitXor(base_nonce[i], seq[i]) ELSE base_nonce[i]]

mix_nonce(base_nonce, seq) ==
    [i \in 1..Len(base_nonce) |-> BitXor(base_nonce[i], seq[i])]

\* Seq::default(): all zeros.
Seq_default == [i \in 1..Nn |-> 0]

\* ------------------------------------------------- the AEAD primitive
\* Keystream byte i of the cipher under (key, nonce).
KeyStream(key, nonce, i) == (key + BigEndian(nonce) + i) % (U8_MAX + 1)

\* The cipher applied in place: every byte is XORed with its keystream byte,
\* so the buffer keeps its length and applying it twice restores it.
Crypt(key, nonce, buf) ==
    [i \in 1..Len(buf) |-> BitXor(buf[i], KeyStream(key, nonce, i))]

\* The authentication tag of (nonce, aad, ciphertext) under key.
Mac(key, nonce, aad, ct) == [key |-> key, nonce |-> nonce, aad |-> aad, ct |-> ct]

\* A tag that no key produces (all zero bytes), and the absence of a tag.
ZeroTag == [key |-> 0, nonce |-> <<>>, aad |-> <<>>, ct |-> <<>>]
NoTag == [key |-> -1, nonce |-> <<>>, aad |-> <<>>, ct |-> <<>>]

\* Aead::encrypt_in_place_detached: Err for a buffer over the length limit,
\* else the buffer encrypted in place and its tag.
encrypt_in_place_detached(key, nonce, aad, buf) ==
    IF Len(buf) > AeadPMax
    THEN [ok |-> FALSE, buf |-> buf, tag |-> NoTag]
    ELSE LET ct == Crypt(key, nonce, buf)
         IN  [ok |-> TRUE, buf |-> ct, tag |-> Mac(key, nonce, aad, ct)]

\* Aead::decrypt_in_place_detached: Err unless the tag is the tag of
\* (nonce, aad, buffer) under key, else the buffer decrypted in place.
decrypt_in_place_detached(key, nonce, aad, buf, tag) ==
    IF Len(buf) > AeadPMax \/ tag # Mac(key, nonce, aad, buf)
    THEN [ok |-> FALSE, buf |-> buf]
    ELSE [ok |-> TRUE, buf |-> Crypt(key, nonce, buf)]

\* ------------------------------------------------------------------- HKDF
\* Digest size of the KDF's hash (HkdfSha256).
Nh == 32

\* LabeledExpand::labeled_expand on the PRK: Err iff the output is longer
\* than 255 digests, else the output bytes, a term of (prk, label, info, L).
labeled_expand(prk, label, info, len) ==
    IF len > 255 * Nh
    THEN [ok |-> FALSE, out |-> <<>>]
    ELSE [ok |-> TRUE,
          out |-> [prk |-> prk, label |-> label, info |-> info, len |-> len]]

\* ---------------------------------------------------------------- AeadCtx
\* AeadCtx::new that makes a context with the overflowed flag set.
AeadCtx_new_overflowed(key, nonce, exporter_secret) ==
    [overflowed      |-> TRUE,
     encryptor       |-> key,
     nonce           |-> nonce,
     exporter_secret |-> exporter_secret,
     seq             |-> Seq_default]

\* AeadCtx::new
AeadCtx_new(key, nonce, exporter_secret) ==
    [overflowed      |-> FALSE,
     encryptor       |-> key,
     nonce           |-> nonce,
     exporter_secret |-> exporter_secret,
     seq             |-> Seq_default]

\* export that binds the output to the running sequence number.
export_seq_bound(ctx, info, len) ==
    LET r == labeled_expand(ctx.exporter_secret, "sec", <<info, ctx.seq>>, len)
    IN  IF r.ok THEN [res |-> "Ok", out |-> r.out]
        ELSE [res |-> "InvalidKdfLength", out |-> <<>>]

\* export that drops the error of labeled_expand instead of mapping it.
export_ignores_error(ctx, info, len) ==
    LET r == labeled_expand(ctx.exporter_secret, "sec", info, len)
    IN  [res |-> "Ok", out |-> r.out]

\* AeadCtx::export: the result and what is written to out_buf.
export(ctx, info, len) ==
    LET r == labeled_expand(ctx.exporter_secret, "sec", info, len)
    IN  IF r.ok THEN [res |-> "Ok", out |-> r.out]
        ELSE [res |-> "InvalidKdfLength", out |-> <<>>]

\* seal that keeps the nonce of the call as the context's base nonce.
seal_stores_nonce(ctx, plaintext, aad, und) ==
    IF ctx.overflowed
    THEN [ctx |-> ctx, res |-> "SeqOverflow", buf |-> plaintext,
          tag |-> NoTag, nonce |-> <<>>]
    ELSE LET nonce   == mix_nonce(ctx.nonce, ctx.seq)
             tag_res == encrypt_in_place_detached(ctx.encryptor, nonce, aad, plaintext)
             inc     == increment_seq(ctx.seq)
         IN  IF ~tag_res.ok
             THEN [ctx |-> ctx, res |-> "Encryption", buf |-> und,
                   tag |-> NoTag, nonce |-> nonce]
             ELSE [ctx |-> [ctx EXCEPT !.nonce = nonce,
                                       !.seq = inc.arr,
                                       !.overflowed = IF inc.ok THEN @ ELSE TRUE],
                   res |-> "Ok", buf |-> tag_res.buf,
                   tag |-> tag_res.tag, nonce |-> nonce]

\* seal that increments seq whether or not the encryption succeeds.
seal_increment_always(ctx, plaintext, aad, und) ==
    IF ctx.overflowed
    THEN [ctx |-> ctx, res |-> "SeqOverflow", buf |-> plaintext,
          tag |-> NoTag, nonce |-> <<>>]
    ELSE LET nonce   == mix_nonce(ctx.nonce, ctx.seq)
             tag_res == encrypt_in_place_detached(ctx.encryptor, nonce, aad, plaintext)
             inc     == increment_seq(ctx.seq)
             next    == [ctx EXCEPT !.seq = inc.arr,
                                    !.overflowed = IF inc.ok THEN @ ELSE TRUE]
         IN  IF ~tag_res.ok
             THEN [ctx |-> next, res |-> "Encryption", buf |-> und,
                   tag |-> NoTag, nonce |-> nonce]
             ELSE [ctx |-> next, res |-> "Ok", buf |-> tag_res.buf,
                   tag |-> tag_res.tag, nonce |-> nonce]

\* seal that computes the tag but leaves the buffer as it was given.
seal_leaves_buffer(ctx, plaintext, aad, und) ==
    IF ctx.overflowed
    THEN [ctx |-> ctx, res |-> "SeqOverflow", buf |-> plaintext,
          tag |-> NoTag, nonce |-> <<>>]
    ELSE LET nonce   == mix_nonce(ctx.nonce, ctx.seq)
             tag_res == encrypt_in_place_detached(ctx.encryptor, nonce, aad, plaintext)
             inc     == increment_seq(ctx.seq)
         IN  IF ~tag_res.ok
             THEN [ctx |-> ctx, res |-> "Encryption", buf |-> und,
                   tag |-> NoTag, nonce |-> nonce]
             ELSE [ctx |-> [ctx EXCEPT !.seq = inc.arr,
                                       !.overflowed = IF inc.ok THEN @ ELSE TRUE],
                   res |-> "Ok", buf |-> plaintext,
                   tag |-> tag_res.tag, nonce |-> nonce]

\* seal that refuses the call made at seq = all 0xFF instead of the one
\* after it.
seal_refuse_at_max(ctx, plaintext, aad, und) ==
    IF ctx.overflowed \/ (\A i \in 1..Len(ctx.seq) : ctx.seq[i] = U8_MAX)
    THEN [ctx |-> ctx, res |-> "SeqOverflow", buf |-> plaintext,
          tag |-> NoTag, nonce |-> <<>>]
    ELSE LET nonce   == mix_nonce(ctx.nonce, ctx.seq)
             tag_res == encrypt_in_place_detached(ctx.encryptor, nonce, aad, plaintext)
             inc     == increment_seq(ctx.seq)
         IN  IF ~tag_res.ok
             THEN [ctx |-> ctx, res |-> "Encryption", buf |-> und,
                   tag |-> NoTag, nonce |-> nonce]
             ELSE [ctx |-> [ctx EXCEPT !.seq = inc.arr,
                                       !.overflowed = IF inc.ok THEN @ ELSE TRUE],
                   res |-> "Ok", buf |-> tag_res.buf,
                   tag |-> tag_res.tag, nonce |-> nonce]

\* seal that drops the result of increment_seq: the flag is never set.
seal_ignore_overflow(ctx, plaintext, aad, und) ==
    IF ctx.overflowed
    THEN [ctx |-> ctx, res |-> "SeqOverflow", buf |-> plaintext,
          tag |-> NoTag, nonce |-> <<>>]
    ELSE LET nonce   == mix_nonce(ctx.nonce, ctx.seq)
             tag_res == encrypt_in_place_detached(ctx.encryptor, nonce, aad, plaintext)
             inc     == increment_seq(ctx.seq)
         IN  IF ~tag_res.ok
             THEN [ctx |-> ctx, res |-> "Encryption", buf |-> und,
                   tag |-> NoTag, nonce |-> nonce]
             ELSE [ctx |-> [ctx EXCEPT !.seq = inc.arr],
                   res |-> "Ok", buf |-> tag_res.buf,
                   tag |-> tag_res.tag, nonce |-> nonce]

\* seal that encrypts the buffer before it looks at the overflowed flag.
seal_encrypt_first(ctx, plaintext, aad, und) ==
    LET nonce   == mix_nonce(ctx.nonce, ctx.seq)
        tag_res == encrypt_in_place_detached(ctx.encryptor, nonce, aad, plaintext)
        inc     == increment_seq(ctx.seq)
    IN  IF ctx.overflowed
        THEN [ctx |-> ctx, res |-> "SeqOverflow", buf |-> tag_res.buf,
              tag |-> NoTag, nonce |-> <<>>]
        ELSE IF ~tag_res.ok
             THEN [ctx |-> ctx, res |-> "Encryption", buf |-> und,
                   tag |-> NoTag, nonce |-> nonce]
             ELSE [ctx |-> [ctx EXCEPT !.seq = inc.arr,
                                       !.overflowed = IF inc.ok THEN @ ELSE TRUE],
                   res |-> "Ok", buf |-> tag_res.buf,
                   tag |-> tag_res.tag, nonce |-> nonce]

\* seal that increments seq before it derives the nonce.
seal_nonce_after_increment(ctx, plaintext, aad, und) ==
    IF ctx.overflowed
    THEN [ctx |-> ctx, res |-> "SeqOverflow", buf |-> plaintext,
          tag |-> NoTag, nonce |-> <<>>]
    ELSE LET inc     == increment_seq(ctx.seq)
             nonce   == mix_nonce(ctx.nonce, inc.arr)
             tag_res == encrypt_in_place_detached(ctx.encryptor, nonce, aad, plaintext)
         IN  IF ~tag_res.ok
             THEN [ctx |-> ctx, res |-> "Encryption", buf |-> und,
                   tag |-> NoTag, nonce |-> nonce]
             ELSE [ctx |-> [ctx EXCEPT !.seq = inc.arr,
                                       !.overflowed = IF inc.ok THEN @ ELSE TRUE],
                   res |-> "Ok", buf |-> tag_res.buf,
                   tag |-> tag_res.tag, nonce |-> nonce]

\* AeadCtxS::seal.  und is what the buffer holds after a failed encryption
\* (undefined by the AEAD's contract).
seal(ctx, plaintext, aad, und) ==
    IF ctx.overflowed
    THEN [ctx |-> ctx, res |-> "SeqOverflow", buf |-> plaintext,
          tag |-> NoTag, nonce |-> <<>>]
    ELSE LET nonce   == mix_nonce(ctx.nonce, ctx.seq)
             tag_res == encrypt_in_place_detached(ctx.encryptor, nonce, aad, plaintext)
             inc     == increment_seq(ctx.seq)
         IN  IF ~tag_res.ok
             THEN [ctx |-> ctx, res |-> "Encryption", buf |-> und,
                   tag |-> NoTag, nonce |-> nonce]
             ELSE [ctx |-> [ctx EXCEPT !.seq = inc.arr,
                                       !.overflowed = IF inc.ok THEN @ ELSE TRUE],
                   res |-> "Ok", buf |-> tag_res.buf,
                   tag |-> tag_res.tag, nonce |-> nonce]

\* open that leaves seq where it was after a successful decryption.
open_keeps_seq(ctx, ciphertext, aad, tag, und) ==
    IF ctx.overflowed
    THEN [ctx |-> ctx, res |-> "SeqOverflow", buf |-> ciphertext, nonce |-> <<>>]
    ELSE LET nonce       == mix_nonce(ctx.nonce, ctx.seq)
             decrypt_res == decrypt_in_place_detached(ctx.encryptor, nonce, aad,
                                                      ciphertext, tag)
         IN  IF ~decrypt_res.ok
             THEN [ctx |-> ctx, res |-> "InvalidTag", buf |-> und, nonce |-> nonce]
             ELSE [ctx |-> ctx, res |-> "Ok", buf |-> decrypt_res.buf,
                   nonce |-> nonce]

\* open that verifies the tag before it looks at the overflowed flag.
open_tag_first(ctx, ciphertext, aad, tag, und) ==
    LET nonce       == mix_nonce(ctx.nonce, ctx.seq)
        decrypt_res == decrypt_in_place_detached(ctx.encryptor, nonce, aad,
                                                 ciphertext, tag)
        inc         == increment_seq(ctx.seq)
    IN  IF ~decrypt_res.ok
        THEN [ctx |-> ctx, res |-> "InvalidTag", buf |-> und, nonce |-> nonce]
        ELSE IF ctx.overflowed
             THEN [ctx |-> ctx, res |-> "SeqOverflow", buf |-> ciphertext,
                   nonce |-> <<>>]
             ELSE [ctx |-> [ctx EXCEPT !.seq = inc.arr,
                                       !.overflowed = IF inc.ok THEN @ ELSE TRUE],
                   res |-> "Ok", buf |-> decrypt_res.buf, nonce |-> nonce]

\* open that increments seq whether or not the tag verifies.
open_increment_always(ctx, ciphertext, aad, tag, und) ==
    IF ctx.overflowed
    THEN [ctx |-> ctx, res |-> "SeqOverflow", buf |-> ciphertext, nonce |-> <<>>]
    ELSE LET nonce       == mix_nonce(ctx.nonce, ctx.seq)
             decrypt_res == decrypt_in_place_detached(ctx.encryptor, nonce, aad,
                                                      ciphertext, tag)
             inc         == increment_seq(ctx.seq)
             next        == [ctx EXCEPT !.seq = inc.arr,
                                        !.overflowed = IF inc.ok THEN @ ELSE TRUE]
         IN  IF ~decrypt_res.ok
             THEN [ctx |-> next, res |-> "InvalidTag", buf |-> und, nonce |-> nonce]
             ELSE [ctx |-> next, res |-> "Ok", buf |-> decrypt_res.buf,
                   nonce |-> nonce]

\* AeadCtxR::open.  und is what the buffer holds after a failed decryption
\* (undefined by the AEAD's contract).
open(ctx, ciphertext, aad, tag, und) ==
    IF ctx.overflowed
    THEN [ctx |-> ctx, res |-> "SeqOverflow", buf |-> ciphertext, nonce |-> <<>>]
    ELSE LET nonce       == mix_nonce(ctx.nonce, ctx.seq)
             decrypt_res == decrypt_in_place_detached(ctx.encryptor, nonce, aad,
                                                      ciphertext, tag)
             inc         == increment_seq(ctx.seq)
         IN  IF ~decrypt_res.ok
             THEN [ctx |-> ctx, res |-> "InvalidTag", buf |-> und, nonce |-> nonce]
             ELSE [ctx |-> [ctx EXCEPT !.seq = inc.arr,
                                       !.overflowed = IF inc.ok THEN @ ELSE TRUE],
                   res |-> "Ok", buf |-> decrypt_res.buf, nonce |-> nonce]

\* ----------------------------------------------------------------- inputs
\* What the key schedule hands to AeadCtx::new: two sample outcomes.
KeySchedules ==
    {[key |-> 1, nonce |-> [i \in 1..Nn |-> 0], exporter_secret |-> "es1"],
     [key |-> 2, nonce |-> [i \in 1..Nn |-> i % (U8_MAX + 1)],
      exporter_secret |-> "es2"]}

\* The plaintexts the caller seals: an empty one, one of the longest length
\* the AEAD accepts, and one that is one byte too long for it.
Plaintexts == {[i \in 1..n |-> i % (U8_MAX + 1)] : n \in {0, AeadPMax, AeadPMax + 1}}

\* The associated data the caller uses.
AADs == {<<>>, <<1>>}

\* The exporter contexts and output lengths the caller asks for.
Infos == {<<>>, <<1>>}
ExportLens == {0, 16, 255 * Nh, (255 * Nh) + 1}

\* ------------------------------------------------------------------ state
VARIABLES
    sender,     \* the AeadCtx inside the sender's AeadCtxS
    receiver,   \* the AeadCtx inside the receiver's AeadCtxR
    wire,       \* the message the transport holds: ciphertext, aad, tag
                \* (and, for reference, its plaintext, the number of seals
                \* that succeeded before it and the sender's context then)
    last,       \* the most recent call: its inputs, its result, the context
                \* before it
    created,    \* what AeadCtx::new was given
    nSeal,      \* successful seals of the sender so far
    nOpen,      \* successful opens of the receiver so far
    usedS,      \* the nonces of the sender's successful seals
    usedR       \* the nonces of the receiver's successful opens

vars == <<sender, receiver, wire, last, created, nSeal, nOpen, usedS, usedR>>

NoMsg == [ct |-> <<>>, aad |-> <<>>, tag |-> NoTag, pt |-> <<>>, idx |-> -1,
          from |-> AeadCtx_new(0, <<>>, "")]

Call(op, who, res, pre, buf_in, aad, tag, buf_out, nonce, info, len, out) ==
    [op |-> op, who |-> who, res |-> res, pre |-> pre, buf_in |-> buf_in,
     aad |-> aad, tag |-> tag, buf_out |-> buf_out, nonce |-> nonce,
     info |-> info, len |-> len, out |-> out]

\* setup: both parties build their context from the same key schedule.
Init ==
    \E ks \in KeySchedules :
        /\ sender = AeadCtx_new(ks.key, ks.nonce, ks.exporter_secret)
        /\ receiver = AeadCtx_new(ks.key, ks.nonce, ks.exporter_secret)
        /\ created = ks
        /\ wire = NoMsg
        /\ last = Call("new", "S", "Ok", sender, <<>>, <<>>, NoTag, <<>>, <<>>,
                       <<>>, 0, <<>>)
        /\ nSeal = 0
        /\ nOpen = 0
        /\ usedS = {}
        /\ usedR = {}

\* What a buffer may hold after the AEAD failed on it under ctx.
Undefined(ctx, buf) ==
    {buf, Crypt(ctx.encryptor, mix_nonce(ctx.nonce, ctx.seq), buf)}

\* The sender seals plaintext in place and hands the message to the
\* transport, which keeps only the latest one.
Seal(plaintext, aad) ==
    /\ sender.overflowed \/ nSeal - nOpen < MaxLag
    /\ \E und \in Undefined(sender, plaintext) :
        LET r == seal(sender, plaintext, aad, und)
        IN  /\ sender' = r.ctx
            /\ last' = Call("seal", "S", r.res, sender, plaintext, aad, r.tag,
                            r.buf, r.nonce, <<>>, 0, <<>>)
            /\ wire' = IF r.res = "Ok"
                       THEN [ct |-> r.buf, aad |-> aad, tag |-> r.tag,
                             pt |-> plaintext, idx |-> nSeal, from |-> sender]
                       ELSE wire
            /\ nSeal' = IF r.res = "Ok" THEN nSeal + 1 ELSE nSeal
            /\ usedS' = IF r.res = "Ok" THEN usedS \cup {r.nonce} ELSE usedS
    /\ UNCHANGED <<receiver, created, nOpen, usedR>>

\* What the transport can hand to the receiver: the message it holds, that
\* message under other associated data, or a forgery with an all-zero tag.
Deliveries ==
    (IF wire.idx >= 0
     THEN {[ct |-> wire.ct, aad |-> a, tag |-> wire.tag] : a \in AADs}
     ELSE {})
    \cup {[ct |-> <<0>>, aad |-> <<>>, tag |-> ZeroTag]}

\* The receiver opens a delivered ciphertext in place.
Open(m) ==
    /\ \E und \in Undefined(receiver, m.ct) :
        LET r == open(receiver, m.ct, m.aad, m.tag, und)
        IN  /\ receiver' = r.ctx
            /\ last' = Call("open", "R", r.res, receiver, m.ct, m.aad, m.tag,
                            r.buf, r.nonce, <<>>, 0, <<>>)
            /\ nOpen' = IF r.res = "Ok" THEN nOpen + 1 ELSE nOpen
            /\ usedR' = IF r.res = "Ok" THEN usedR \cup {r.nonce} ELSE usedR
    /\ UNCHANGED <<sender, wire, created, nSeal, usedS>>

\* AeadCtxS::export, were it to advance the sequence counter as seal does.
ExportS_advances_seq(info, len) ==
    LET r == export(sender, info, len)
    IN  /\ last' = Call("export", "S", r.res, sender, <<>>, <<>>, NoTag, <<>>,
                        <<>>, info, len, r.out)
        /\ sender' = [sender EXCEPT !.seq = increment_seq(sender.seq).arr]
        /\ UNCHANGED <<receiver, wire, created, nSeal, nOpen, usedS, usedR>>

\* AeadCtxS::export
ExportS(info, len) ==
    LET r == export(sender, info, len)
    IN  /\ last' = Call("export", "S", r.res, sender, <<>>, <<>>, NoTag, <<>>,
                        <<>>, info, len, r.out)
        /\ UNCHANGED <<sender, receiver, wire, created, nSeal, nOpen, usedS, usedR>>

\* AeadCtxR::export
ExportR(info, len) ==
    LET r == export(receiver, info, len)
    IN  /\ last' = Call("export", "R", r.res, receiver, <<>>, <<>>, NoTag, <<>>,
                        <<>>, info, len, r.out)
        /\ UNCHANGED <<sender, receiver, wire, created, nSeal, nOpen, usedS, usedR>>

Next ==
    \/ \E pt \in Plaintexts, aad \in AADs : Seal(pt, aad)
    \/ \E m \in Deliveries : Open(m)
    \/ \E info \in Infos, len \in ExportLens : ExportS(info, len)
    \/ \E info \in Infos, len \in ExportLens : ExportR(info, len)

Spec == Init /\ [][Next]_vars

\* The context the most recent call was made on, as it is now.
CtxOf(who) == IF who = "S" THEN sender ELSE receiver

\* Every byte of seq is 0xFF.
AllMax(seq) == \A i \in 1..Len(seq) : seq[i] = U8_MAX

\* The most recent call was an open of exactly the message the transport
\* holds: the sender's ciphertext and tag, under the sender's aad.
OpenedWire ==
    /\ last.op = "open"
    /\ wire.idx >= 0
    /\ last.buf_in = wire.ct
    /\ last.aad = wire.aad
    /\ last.tag = wire.tag

\* ------------------------------------------------------------------ claims

\* C1: a context that was overflowed before a call is overflowed after it,
\* and a seal or open made on an overflowed context returns SeqOverflow,
\* whatever ciphertext and tag it is given, also a tag that would verify
\* under the context's current nonce (the flag is looked at before the tag
\* is verified).
C1_OverflowIsFinal ==
    last.pre.overflowed =>
        /\ CtxOf(last.who).overflowed
        /\ last.op \in {"seal", "open"} => last.res = "SeqOverflow"
        /\ \A ct \in Plaintexts, aad \in AADs :
               LET ctx   == CtxOf(last.who)
                   valid == Mac(ctx.encryptor, mix_nonce(ctx.nonce, ctx.seq), aad, ct)
               IN  /\ open(ctx, ct, aad, valid, ct).res = "SeqOverflow"
                   /\ open(ctx, ct, aad, ZeroTag, ct).res = "SeqOverflow"
                   /\ seal(ctx, ct, aad, ct).res = "SeqOverflow"

\* C1 witness: an overflowed receiver is given a forged ciphertext with an
\* all-zero tag and returns SeqOverflow.
C1_Witness ==
    /\ last.op = "open"
    /\ last.pre.overflowed
    /\ last.tag = ZeroTag
    /\ last.res = "SeqOverflow"

\* C2: the nonces of the successful seals of the sender are pairwise
\* distinct (there are as many of them as successful seals), and so are the
\* nonces of the successful opens of the receiver.
C2_NonceNeverRepeats ==
    /\ Cardinality(usedS) = nSeal
    /\ Cardinality(usedR) = nOpen

\* C2 witness: the sender has used up every nonce, with exports and failed
\* calls possible in between, and the receiver has opened several messages.
C2_Witness ==
    /\ nSeal = SeqSpace
    /\ nOpen >= 2
    /\ last.op = "seal"
    /\ last.res = "Ok"

\* C3 as stated: seq never decreases and, read as a big-endian integer,
\* equals the number of successful seals (opens) so far, for every number of
\* them the context allows.
C3_SeqEqualsCount_AsStated ==
    /\ BigEndian(sender.seq) = nSeal
    /\ BigEndian(receiver.seq) = nOpen
    /\ last.op \in {"seal", "open"} =>
           BigEndian(CtxOf(last.who).seq) >= BigEndian(last.pre.seq)

\* C3 amended: seq is 0 at creation, a failed call leaves it alone and a
\* successful seal/open adds exactly one, so seq equals the number N of
\* successful calls for every N below 2^(8*Nn); the last successful call the
\* context allows, the 2^(8*Nn)-th, wraps seq to all zeros (seq is N modulo
\* 2^(8*Nn)) and is the only call that decreases it and the one that sets
\* overflowed.
C3_SeqEqualsCount ==
    /\ nSeal <= SeqSpace
    /\ nOpen <= SeqSpace
    /\ BigEndian(sender.seq) = nSeal % SeqSpace
    /\ BigEndian(receiver.seq) = nOpen % SeqSpace
    /\ last.op \in {"seal", "open"} =>
        /\ last.res # "Ok" => CtxOf(last.who).seq = last.pre.seq
        /\ last.res = "Ok" /\ ~AllMax(last.pre.seq) =>
               BigEndian(CtxOf(last.who).seq) = BigEndian(last.pre.seq) + 1
        /\ last.res = "Ok" /\ AllMax(last.pre.seq) =>
               /\ BigEndian(CtxOf(last.who).seq) = 0
               /\ CtxOf(last.who).overflowed
    /\ last.op = "new" => BigEndian(sender.seq) = 0 /\ BigEndian(receiver.seq) = 0

\* C3 witness: a seal whose increment carried into the next byte.
C3_Witness ==
    /\ last.op = "seal"
    /\ last.res = "Ok"
    /\ last.pre.seq[Nn] = U8_MAX
    /\ ~AllMax(last.pre.seq)
    /\ BigEndian(sender.seq) = nSeal
    /\ nSeal > U8_MAX

\* C4: on a context whose seq is all 0xFF and that is not overflowed, a seal
\* or open is never refused with SeqOverflow, a seal of a buffer the AEAD
\* accepts and an open of the sender's message for that seq succeed, the
\* success sets overflowed, and every seal/open made after it returns
\* SeqOverflow.
C4_OneMoreAtMax ==
    /\ (last.op \in {"seal", "open"} /\ AllMax(last.pre.seq) /\ ~last.pre.overflowed) =>
        /\ last.res # "SeqOverflow"
        /\ last.op = "seal" /\ Len(last.buf_in) <= AeadPMax => last.res = "Ok"
        /\ OpenedWire /\ wire.from.seq = last.pre.seq => last.res = "Ok"
        /\ last.res = "Ok" => CtxOf(last.who).overflowed
        /\ last.res = "Ok" =>
               \A pt \in Plaintexts, aad \in AADs :
                   /\ seal(CtxOf(last.who), pt, aad, pt).res = "SeqOverflow"
                   /\ open(CtxOf(last.who), pt, aad, ZeroTag, pt).res = "SeqOverflow"
        /\ last.res # "Ok" => CtxOf(last.who) = last.pre
    /\ (last.op \in {"seal", "open"} /\ last.pre.overflowed) => last.res = "SeqOverflow"

\* C4 witness: the round trip of test_overflow, sender and receiver both at
\* seq = all 0xFF; the open succeeded and both contexts are now overflowed.
C4_Witness ==
    /\ last.op = "open"
    /\ AllMax(last.pre.seq)
    /\ ~last.pre.overflowed
    /\ last.res = "Ok"
    /\ receiver.overflowed
    /\ sender.overflowed

\* C5 as stated: a context performs exactly 2^(8*Nn) - 1 successful seals
\* (opens) between its creation and its first SeqOverflow refusal.
C5_UsableCount_AsStated ==
    /\ (last.op = "seal" /\ last.res = "SeqOverflow") => nSeal = SeqSpace - 1
    /\ (last.op = "open" /\ last.res = "SeqOverflow") => nOpen = SeqSpace - 1

\* C5 amended: a context performs exactly 2^(8*Nn) successful seals (opens)
\* between its creation and its first SeqOverflow refusal, one for each
\* value of seq from 0 to all 0xFF, and the last of them is the one that
\* sets overflowed.
C5_UsableCount ==
    /\ (last.op = "seal" /\ last.res = "SeqOverflow") => nSeal = SeqSpace
    /\ (last.op = "open" /\ last.res = "SeqOverflow") => nOpen = SeqSpace
    /\ sender.overflowed <=> nSeal = SeqSpace
    /\ receiver.overflowed <=> nOpen = SeqSpace
    /\ nSeal <= SeqSpace
    /\ nOpen <= SeqSpace
    /\ (last.op = "seal" /\ last.res = "Ok") =>
           (~last.pre.overflowed /\ (sender.overflowed <=> AllMax(last.pre.seq)))
    /\ (last.op = "open" /\ last.res = "Ok") =>
           (~last.pre.overflowed /\ (receiver.overflowed <=> AllMax(last.pre.seq)))

\* C5 witness: the first refusal of a seal, after 2^(8*Nn) successful ones.
C5_Witness ==
    /\ last.op = "seal"
    /\ last.res = "SeqOverflow"
    /\ nSeal = SeqSpace

\* C6: when open returns InvalidTag the receiver's context, seq and
\* overflowed included, is what it was before the call, and if the transport
\* holds the sender's message for the receiver's seq, opening it now
\* succeeds and yields its plaintext.
C6_InvalidTagKeepsSeq ==
    last.res = "InvalidTag" =>
        /\ last.op = "open"
        /\ receiver.seq = last.pre.seq
        /\ receiver.overflowed = last.pre.overflowed
        /\ receiver = last.pre
        /\ wire.idx = nOpen =>
               LET r == open(receiver, wire.ct, wire.aad, wire.tag, wire.ct)
               IN  r.res = "Ok" /\ r.buf = wire.pt

\* C6 witness: a forgery was rejected with InvalidTag after some messages
\* were opened, while the genuine next message waits in the transport.
C6_Witness ==
    /\ last.res = "InvalidTag"
    /\ last.tag = ZeroTag
    /\ nOpen >= 1
    /\ wire.idx = nOpen

\* C7: when seal or open returns SeqOverflow, the buffer holds what it held
\* before the call and the context (seq, overflowed, base nonce, exporter
\* secret, key) is unchanged.
C7_SeqOverflowTouchesNothing ==
    last.res = "SeqOverflow" =>
        /\ last.op \in {"seal", "open"}
        /\ last.buf_out = last.buf_in
        /\ CtxOf(last.who) = last.pre

\* C7 witness: a seal of a non-empty plaintext was refused with SeqOverflow.
C7_Witness ==
    /\ last.res = "SeqOverflow"
    /\ last.op = "seal"
    /\ Len(last.buf_in) > 0

\* C8: when the receiver's context holds the key, base nonce, seq and
\* overflowed flag the sender's context held when it sealed a message, open
\* of that message's ciphertext with its tag and aad returns Ok and the
\* buffer holds the plaintext again; this covers the message sealed at
\* seq = all 0xFF.
C8_RoundTrip ==
    (/\ OpenedWire
     /\ last.pre.encryptor = wire.from.encryptor
     /\ last.pre.nonce = wire.from.nonce
     /\ last.pre.seq = wire.from.seq
     /\ last.pre.overflowed = wire.from.overflowed) =>
        /\ last.res = "Ok"
        /\ last.buf_out = wire.pt

\* C8 witness: the round trip of a non-empty message sealed at seq = all
\* 0xFF.
C8_Witness ==
    /\ OpenedWire
    /\ last.pre = wire.from
    /\ AllMax(last.pre.seq)
    /\ Len(wire.pt) > 0
    /\ last.res = "Ok"
    /\ last.buf_out = wire.pt

\* Successful opens of the receiver before the most recent call.
OpensBefore == IF last.op = "open" /\ last.res = "Ok" THEN nOpen - 1 ELSE nOpen

\* C9: the message of the sender's i-th successful seal (wire.idx = i - 1)
\* is accepted only by a receiver that has made exactly i - 1 successful
\* opens; delivered to a receiver that has made fewer (a message was dropped
\* or overtaken) open returns InvalidTag, delivered to one that has made
\* more it returns InvalidTag, or SeqOverflow once the receiver has
\* overflowed, and in both cases seq does not move.
C9_NoReordering ==
    OpenedWire =>
        /\ last.res = "Ok" => OpensBefore = wire.idx
        /\ OpensBefore = wire.idx => last.res = "Ok"
        /\ OpensBefore < wire.idx => last.res = "InvalidTag"
        /\ OpensBefore > wire.idx =>
               last.res = (IF last.pre.overflowed THEN "SeqOverflow" ELSE "InvalidTag")
        /\ OpensBefore # wire.idx => receiver.seq = last.pre.seq /\ nOpen = OpensBefore

\* C9 witness: the receiver, with one message opened, is handed the
\* sender's message number three (number two was dropped) and returns
\* InvalidTag.
C9_Witness ==
    /\ OpenedWire
    /\ OpensBefore >= 1
    /\ wire.idx > OpensBefore
    /\ last.res = "InvalidTag"
    /\ receiver.seq = last.pre.seq

\* C10: export with an output length HKDF allows returns Ok and the bytes
\* that export(info, L) returns on the context as AeadCtx::new made it,
\* whatever seals, opens and failed calls came before, also on an
\* overflowed context.
C10_ExportIndependent ==
    (last.op = "export" /\ last.len <= 255 * Nh) =>
        /\ last.res = "Ok"
        /\ last.out = export(AeadCtx_new(created.key, created.nonce,
                                         created.exporter_secret),
                             last.info, last.len).out

\* C10 witness: an export on the sender after it has overflowed, with
\* successful and refused seals before it.
C10_Witness ==
    /\ last.op = "export"
    /\ last.who = "S"
    /\ last.pre.overflowed
    /\ nSeal = SeqSpace
    /\ last.res = "Ok"

\* ------------------------------------------------------------------- C11
\* The nonce the next seal or open on a context would hand to the AEAD.
NextNonce(ctx) == mix_nonce(ctx.nonce, ctx.seq)

\* C11: export has no effect on the context, whether it succeeds or fails
\* with InvalidKdfLength: after it, the sequence counter, the overflowed
\* flag, the base nonce, the key and the exporter secret of the context it
\* was called on are what they were before it, the sequence counter still
\* equals the number of operations that succeeded, and so the nonce of the
\* next seal or open is the one it would have been without the export.
C11_ExportChangesNothing ==
    last.op = "export" =>
        /\ last.res \in {"Ok", "InvalidKdfLength"}
        /\ CtxOf(last.who).seq = last.pre.seq
        /\ CtxOf(last.who).overflowed = last.pre.overflowed
        /\ CtxOf(last.who).nonce = last.pre.nonce
        /\ CtxOf(last.who).encryptor = last.pre.encryptor
        /\ CtxOf(last.who).exporter_secret = last.pre.exporter_secret
        /\ NextNonce(CtxOf(last.who)) = NextNonce(last.pre)
        /\ BigEndian(sender.seq) = nSeal % SeqSpace
        /\ BigEndian(receiver.seq) = nOpen % SeqSpace

\* An export that failed with InvalidKdfLength on a sender that has sealed.
C11_Witness ==
    /\ last.op = "export"
    /\ last.res = "InvalidKdfLength"
    /\ last.who = "S"
    /\ nSeal > 0

\* ------------------------------------------------------------------- C12
\* C12: export returns InvalidKdfLength exactly when the length of out_buf
\* is greater than 255 * Nh; for every length up to and including 255 * Nh,
\* zero among them, it returns Ok and fills out_buf (with as many bytes as
\* asked for); it returns no other error, on a fresh, a used or an
\* overflowed context.
C12_ExportErrorIffTooLong ==
    last.op = "export" =>
        /\ last.res \in {"Ok", "InvalidKdfLength"}
        /\ (last.res = "InvalidKdfLength") <=> (last.len > 255 * Nh)
        /\ (last.res = "Ok") <=> (last.len <= 255 * Nh)
        /\ last.res = "Ok" => last.out.len = last.len
        /\ last.res = "InvalidKdfLength" => last.out = <<>>

\* An export of exactly 255 * Nh bytes that returned Ok, on an overflowed
\* context.
C12_Witness ==
    /\ last.op = "export"
    /\ last.len = 255 * Nh
    /\ last.res = "Ok"
    /\ last.pre.overflowed

\* An export of zero bytes that returned Ok.
C12_WitnessZero ==
    /\ last.op = "export"
    /\ last.len = 0
    /\ last.res = "Ok"

\* ------------------------------------------------------------ kex/x25519
\* Marshallable::OutputSize of PublicKey, PrivateKey, KexResult and AeadTag.
PublicKey_size == 32
PrivateKey_size == 32
KexResult_size == 32
AeadTag_size == 16

\* The values of a u8 of the encodings (these operations do not count, so
\* their bytes keep their eight bits).
Octet == 0..255

\* Bitwise and / or of two u8 values.
RECURSIVE BitAnd(_, _)
BitAnd(a, b) ==
    IF a = 0 \/ b = 0 THEN 0
    ELSE ((a % 2) * (b % 2)) + (2 * BitAnd(a \div 2, b \div 2))

RECURSIVE BitOr(_, _)
BitOr(a, b) ==
    IF a = 0 THEN b
    ELSE IF b = 0 THEN a
    ELSE (IF (a % 2) + (b % 2) > 0 THEN 1 ELSE 0)
         + (2 * BitOr(a \div 2, b \div 2))

\* x25519_dalek's clamping of a scalar: the three low bits of the first
\* byte and the top bit of the last byte are cleared, the second highest
\* bit of the last byte is set.
clamp_scalar(bytes) ==
    [i \in 1..Len(bytes) |->
        IF i = 1 /\ i = Len(bytes) THEN BitOr(BitAnd(BitAnd(bytes[i], 248), 127), 64)
        ELSE IF i = 1 THEN BitAnd(bytes[i], 248)
        ELSE IF i = Len(bytes) THEN BitOr(BitAnd(bytes[i], 127), 64)
        ELSE bytes[i]]

\* The little-endian integer of a byte string, reduced modulo m.
RECURSIVE LittleEndianMod(_, _)
LittleEndianMod(bytes, m) ==
    IF bytes = <<>> THEN 0
    ELSE (bytes[1] + (256 * LittleEndianMod(Tail(bytes), m))) % m

\* The group x25519 computes in, reduced to a cyclic group of order
\* Cofactor * SubgroupOrder written additively: its elements of order
\* dividing Cofactor are the multiples of SubgroupOrder, and the neutral
\* element is encoded as the all-zero string.
Cofactor == 8
SubgroupOrder == 5
GroupOrder == Cofactor * SubgroupOrder

\* The u-coordinate of the base point.
X25519_BASEPOINT_BYTES == [i \in 1..PublicKey_size |-> IF i = 1 THEN 9 ELSE 0]

\* The integer a clamped scalar stands for: a multiple of the cofactor that
\* is not a multiple of the subgroup order.
ScalarOf(bytes) ==
    Cofactor * (1 + (LittleEndianMod(clamp_scalar(bytes),
                                     Cofactor * (SubgroupOrder - 1)) \div Cofactor))

\* The encoding of a group element.
EncodePoint(x) == [i \in 1..KexResult_size |-> IF i = 1 THEN x ELSE 0]

\* x25519(scalar, point): clamps the scalar and multiplies.
x25519(scalar, point) ==
    EncodePoint((ScalarOf(scalar) * LittleEndianMod(point, GroupOrder)) % GroupOrder)

\* x25519_dalek::PublicKey::from([u8; 32]): keeps the bytes as they are.
dalek_PublicKey_from(arr) == [point |-> arr]

\* x25519_dalek::StaticSecret::from([u8; 32]) and StaticSecret::new: the
\* releases of the crate differ in whether the scalar is clamped when it is
\* stored (early) or only when it is used.
dalek_StaticSecret_from(arr, early) ==
    [scalar |-> IF early THEN clamp_scalar(arr) ELSE arr]

\* x25519_dalek::PublicKey::from(&StaticSecret)
dalek_PublicKey_from_secret(sk) ==
    [point |-> x25519(sk.scalar, X25519_BASEPOINT_BYTES)]

\* StaticSecret::diffie_hellman
diffie_hellman(sk, pk) == x25519(sk.scalar, pk.point)

\* What unmarshal returns when it refuses its input.
NoValue == [none |-> TRUE]

\* arr.copy_from_slice(encoded) into an array of n bytes.
copy_from_slice(encoded, n) == [i \in 1..n |-> encoded[i]]

\* PublicKey::marshal
PublicKey_marshal(pk) == copy_from_slice(pk.point, PublicKey_size)

\* PublicKey::unmarshal that clamps the bytes as a scalar would be.
PublicKey_unmarshal_clamping(encoded) ==
    IF Len(encoded) # PublicKey_size
    THEN [res |-> "InvalidEncoding", value |-> NoValue]
    ELSE [res |-> "Ok",
          value |-> dalek_PublicKey_from(
                        clamp_scalar(copy_from_slice(encoded, PublicKey_size)))]

\* PublicKey::unmarshal
PublicKey_unmarshal(encoded) ==
    IF Len(encoded) # PublicKey_size
    THEN [res |-> "InvalidEncoding", value |-> NoValue]
    ELSE [res |-> "Ok",
          value |-> dalek_PublicKey_from(copy_from_slice(encoded, PublicKey_size))]

\* PrivateKey::marshal
PrivateKey_marshal(sk) == copy_from_slice(sk.scalar, PrivateKey_size)

\* PrivateKey::unmarshal that reads the bytes in the opposite order.
PrivateKey_unmarshal_reversed(encoded, early) ==
    IF Len(encoded) # PrivateKey_size
    THEN [res |-> "InvalidEncoding", value |-> NoValue]
    ELSE [res |-> "Ok",
          value |-> dalek_StaticSecret_from(
                        [i \in 1..PrivateKey_size |->
                            encoded[(PrivateKey_size + 1) - i]], early)]

\* PrivateKey::unmarshal that only refuses inputs that are too short.
PrivateKey_unmarshal_prefix(encoded, early) ==
    IF Len(encoded) < PrivateKey_size
    THEN [res |-> "InvalidEncoding", value |-> NoValue]
    ELSE [res |-> "Ok",
          value |-> dalek_StaticSecret_from(
                        copy_from_slice(encoded, PrivateKey_size), early)]

\* PrivateKey::unmarshal
PrivateKey_unmarshal(encoded, early) ==
    IF Len(encoded) # PrivateKey_size
    THEN [res |-> "InvalidEncoding", value |-> NoValue]
    ELSE [res |-> "Ok",
          value |-> dalek_StaticSecret_from(
                        copy_from_slice(encoded, PrivateKey_size), early)]

\* AeadTag::marshal
AeadTag_marshal(tag) == copy_from_slice(tag.arr, AeadTag_size)

\* AeadTag::unmarshal
AeadTag_unmarshal(encoded) ==
    IF Len(encoded) # AeadTag_size
    THEN [res |-> "InvalidEncoding", value |-> NoValue]
    ELSE [res |-> "Ok", value |-> [arr |-> copy_from_slice(encoded, AeadTag_size)]]

\* X25519::gen_keypair, csprng being the bytes the generator yields.
gen_keypair(csprng, early) ==
    LET sk == dalek_StaticSecret_from(csprng, early)
    IN  [sk |-> sk, pk |-> dalek_PublicKey_from_secret(sk)]

\* X25519::sk_to_pk
sk_to_pk(sk) == dalek_PublicKey_from_secret(sk)

\* KexResult::marshal
KexResult_marshal(res) == copy_from_slice(res, KexResult_size)

\* kex that hands out whatever the DH operation gives.
kex_unchecked(sk, pk) ==
    [res |-> "Ok", out |-> diffie_hellman(sk, pk)]

\* X25519::kex
kex(sk, pk) ==
    LET res == diffie_hellman(sk, pk)
    IN  IF res = [i \in 1..KexResult_size |-> 0]
        THEN [res |-> "InvalidKeyExchange", out |-> <<>>]
        ELSE [res |-> "Ok", out |-> res]

\* ------------------------------------------- keys and tags: inputs, steps
\* Byte values the encodings are built from: values clamping changes and
\* values it leaves alone, in the first and in the last byte.
OctetSamples == {0, 5, 9, 100, 200, 255}

\* The byte strings of length n handed to unmarshal: first and last byte
\* from the samples, the bytes between them all zero or all one.
Encodings(n) ==
    {[i \in 1..n |-> IF i = 1 THEN a ELSE IF i = n THEN c ELSE b] :
        a \in OctetSamples, c \in OctetSamples, b \in {0, 1}}

\* The lengths tried for a type of the given size: none, one less, the
\* size itself, one more.
EncodingLens(size) == {0, size - 1, size, size + 1}

\* The byte strings unmarshal is called with for a type of the given size.
UnmarshalInputs(size) == UNION {Encodings(n) : n \in EncodingLens(size)}

\* The private keys and public keys kex is called with: any key unmarshal
\* accepts, and the public keys of such private keys.
KexPrivateKeys ==
    {PrivateKey_unmarshal(e, early).value :
        e \in Encodings(PrivateKey_size), early \in BOOLEAN}
KexHonestPublicKeys == {sk_to_pk(sk) : sk \in KexPrivateKeys}
KexPublicKeys ==
    {PublicKey_unmarshal(e).value : e \in Encodings(PublicKey_size)}
    \cup KexHonestPublicKeys

\* What a call of unmarshal leaves in last: the input, the result, the
\* value, the bytes marshal gives for the value and what unmarshal makes of
\* those bytes.
Unmarshalled(type, encoded, r, bytes, again) ==
    [op |-> "unmarshal", type |-> type, encoded |-> encoded, res |-> r.res,
     value |-> r.value, bytes |-> bytes, again |-> again]

\* X25519::kex(sk, pk)
Kex(sk, pk) ==
    LET r == kex(sk, pk)
    IN  /\ last' = [op |-> "kex", sk |-> sk, pk |-> pk,
                    raw |-> diffie_hellman(sk, pk), res |-> r.res,
                    out |-> IF r.res = "Ok" THEN KexResult_marshal(r.out) ELSE <<>>]
        /\ UNCHANGED <<sender, receiver, wire, created, nSeal, nOpen, usedS, usedR>>

\* PublicKey::unmarshal(encoded), then marshal and unmarshal of the value.
UnmarshalPublicKey(encoded) ==
    LET r     == PublicKey_unmarshal(encoded)
        bytes == IF r.res = "Ok" THEN PublicKey_marshal(r.value) ELSE <<>>
        again == IF r.res = "Ok" THEN PublicKey_unmarshal(bytes) ELSE r
    IN  /\ last' = Unmarshalled("PublicKey", encoded, r, bytes, again)
        /\ UNCHANGED <<sender, receiver, wire, created, nSeal, nOpen, usedS, usedR>>

\* PrivateKey::unmarshal(encoded), then marshal and unmarshal of the value.
UnmarshalPrivateKey(encoded, early) ==
    LET r     == PrivateKey_unmarshal(encoded, early)
        bytes == IF r.res = "Ok" THEN PrivateKey_marshal(r.value) ELSE <<>>
        again == IF r.res = "Ok" THEN PrivateKey_unmarshal(bytes, early) ELSE r
    IN  /\ last' = Unmarshalled("PrivateKey", encoded, r, bytes, again)
        /\ UNCHANGED <<sender, receiver, wire, created, nSeal, nOpen, usedS, usedR>>

\* AeadTag::unmarshal(encoded), then marshal and unmarshal of the value.
UnmarshalAeadTag(encoded) ==
    LET r     == AeadTag_unmarshal(encoded)
        bytes == IF r.res = "Ok" THEN AeadTag_marshal(r.value) ELSE <<>>
        again == IF r.res = "Ok" THEN AeadTag_unmarshal(bytes) ELSE r
    IN  /\ last' = Unmarshalled("AeadTag", encoded, r, bytes, again)
        /\ UNCHANGED <<sender, receiver, wire, created, nSeal, nOpen, usedS, usedR>>

\* test_dh_marshal_correctness: gen_keypair, marshal of both keys, unmarshal
\* of both encodings.
MarshalKeypair(csprng, early) ==
    LET kp == gen_keypair(csprng, early)
    IN  /\ last' = [op |-> "gen_keypair", csprng |-> csprng,
                    sk |-> kp.sk, pk |-> kp.pk,
                    new_sk |-> PrivateKey_unmarshal(PrivateKey_marshal(kp.sk), early),
                    new_pk |-> PublicKey_unmarshal(PublicKey_marshal(kp.pk))]
        /\ UNCHANGED <<sender, receiver, wire, created, nSeal, nOpen, usedS, usedR>>

\* The operations on keys and tags keep no state: a behaviour applies one
\* of them to one input, starting from the state Init leaves.
KexNext ==
    \/ /\ last.op = "new"
       /\ \E sk \in KexPrivateKeys, pk \in KexPublicKeys : Kex(sk, pk)
    \/ /\ last.op = "new"
       /\ \E e \in UnmarshalInputs(PublicKey_size) : UnmarshalPublicKey(e)
    \/ /\ last.op = "new"
       /\ \E e \in UnmarshalInputs(PrivateKey_size), early \in BOOLEAN :
              UnmarshalPrivateKey(e, early)
    \/ /\ last.op = "new"
       /\ \E e \in UnmarshalInputs(AeadTag_size) : UnmarshalAeadTag(e)
    \/ /\ last.op = "new"
       /\ \E csprng \in Encodings(PrivateKey_size), early \in BOOLEAN :
              MarshalKeypair(csprng, early)

\* The keys and tags of the library: kex, marshal and unmarshal applied to
\* the inputs above.
KexSpec == Init /\ [][KexNext]_vars

\* ------------------------------------------------------------------- C13
\* Every byte of the string is zero.
AllZero(bytes) == \A i \in 1..Len(bytes) : bytes[i] = 0

\* C13: X25519 kex(sk, pk) returns InvalidKeyExchange exactly when the raw
\* DH output is the all-zero 32-byte string; otherwise it returns Ok with
\* that output, so a shared secret it hands out is never all zero.
C13_KexErrorIffAllZero ==
    last.op = "kex" =>
        /\ last.res \in {"Ok", "InvalidKeyExchange"}
        /\ Len(last.raw) = KexResult_size
        /\ (last.res = "InvalidKeyExchange") <=> AllZero(last.raw)
        /\ last.res = "Ok" => (last.out = last.raw /\ ~AllZero(last.out))

\* kex of a private key with a public key of small order: the DH output is
\* all zero although neither encoding is.
C13_Witness ==
    /\ last.op = "kex"
    /\ last.res = "InvalidKeyExchange"
    /\ ~AllZero(last.pk.point)
    /\ ~AllZero(last.sk.scalar)

\* kex of a private key with the public key of another private key.
C13_WitnessOk ==
    /\ last.op = "kex"
    /\ last.res = "Ok"
    /\ last.pk \in KexHonestPublicKeys

\* ------------------------------------------------------------------- C14
\* C14: serialization round trip of keys: for a key pair gen_keypair
\* returns, and for a public or private key unmarshal returns, unmarshal of
\* the key's marshalled bytes succeeds and gives a key with the same bytes
\* (the comparison the tests' PartialEq makes).
C14_MarshalRoundTrip ==
    /\ last.op = "gen_keypair" =>
           /\ last.new_sk.res = "Ok"
           /\ last.new_pk.res = "Ok"
           /\ PrivateKey_marshal(last.new_sk.value) = PrivateKey_marshal(last.sk)
           /\ PublicKey_marshal(last.new_pk.value) = PublicKey_marshal(last.pk)
    /\ (last.op = "unmarshal" /\ last.res = "Ok" /\ last.type = "PrivateKey") =>
           /\ last.again.res = "Ok"
           /\ PrivateKey_marshal(last.again.value) = PrivateKey_marshal(last.value)
    /\ (last.op = "unmarshal" /\ last.res = "Ok" /\ last.type = "PublicKey") =>
           /\ last.again.res = "Ok"
           /\ PublicKey_marshal(last.again.value) = PublicKey_marshal(last.value)

\* A key pair whose private key is not the bytes the generator gave (they
\* were clamped), marshalled and unmarshalled.
C14_Witness ==
    /\ last.op = "gen_keypair"
    /\ last.sk.scalar # last.csprng
    /\ PrivateKey_marshal(last.new_sk.value) = last.sk.scalar
    /\ ~AllZero(last.pk.point)

\* ------------------------------------------------------------------- C15
\* C15: unmarshal of a public key does not clamp or otherwise change the
\* bytes: for every 32-byte string b, unmarshal(b) succeeds and marshal of
\* the key is b; likewise for every 16-byte string and AeadTag.
C15_UnmarshalKeepsBytes ==
    /\ (last.op = "unmarshal" /\ last.type = "PublicKey"
        /\ Len(last.encoded) = PublicKey_size) =>
           (last.res = "Ok" /\ last.bytes = last.encoded)
    /\ (last.op = "unmarshal" /\ last.type = "AeadTag"
        /\ Len(last.encoded) = AeadTag_size) =>
           (last.res = "Ok" /\ last.bytes = last.encoded)

\* A public key unmarshalled from bytes that clamping would have changed in
\* the first and in the last byte.
C15_Witness ==
    /\ last.op = "unmarshal"
    /\ last.type = "PublicKey"
    /\ last.res = "Ok"
    /\ clamp_scalar(last.encoded)[1] # last.encoded[1]
    /\ clamp_scalar(last.encoded)[PublicKey_size] # last.encoded[PublicKey_size]
    /\ last.bytes = last.encoded

\* A tag unmarshalled from 16 bytes and marshalled again.
C15_WitnessTag ==
    /\ last.op = "unmarshal"
    /\ last.type = "AeadTag"
    /\ last.res = "Ok"
    /\ ~AllZero(last.bytes)

\* ------------------------------------------------------------------- C16
\* The size unmarshal asks of an encoding of the type.
SizeOf(type) ==
    IF type = "AeadTag" THEN AeadTag_size
    ELSE IF type = "PublicKey" THEN PublicKey_size
    ELSE PrivateKey_size

\* C16: unmarshal of an X25519 public key, an X25519 private key or an
\* AeadTag returns InvalidEncoding exactly when the length of the input
\* differs from the fixed size of the type (32, 32, 16); every input of that
\* length is accepted, whatever its bytes, and there is no other error.
C16_InvalidEncodingIffWrongLength ==
    last.op = "unmarshal" =>
        /\ last.res \in {"Ok", "InvalidEncoding"}
        /\ (last.res = "InvalidEncoding") <=> (Len(last.encoded) # SizeOf(last.type))
        /\ last.res = "InvalidEncoding" => last.value = NoValue
        /\ last.res = "Ok" => Len(last.bytes) = SizeOf(last.type)

\* A private key encoding one byte too long, refused.
C16_Witness ==
    /\ last.op = "unmarshal"
    /\ last.type = "PrivateKey"
    /\ Len(last.encoded) = PrivateKey_size + 1
    /\ last.res = "InvalidEncoding"

\* ------------------------------------------------------ kem, op_mode, setup
\* Key size of the AEAD (ChaCha20Poly1305).
Nk == 32

\* LabeledExtract::labeled_extract: a term of (salt, label, ikm).
labeled_extract(salt, label, ikm) == [salt |-> salt, label |-> label, ikm |-> ikm]

\* zeros(Nh), the salt of the extractions that have none.
ZeroSalt == [i \in 1..Nh |-> 0]

\* The PSK bundle of the modes that carry none, and the bundles the callers
\* share: two with the same id and different keys.
NoPsk == [psk |-> <<>>, psk_id |-> <<>>]
PskBundles == {[psk |-> <<1>>, psk_id |-> <<1>>], [psk |-> <<2>>, psk_id |-> <<1>>]}

\* The identity of the modes that authenticate no sender.
NoIdent == [none |-> TRUE]

\* OpModeS / OpModeR: Base = 0, Psk = 1, Auth = 2, AuthPsk = 3. ident is the
\* sender's key pair for the sender and the sender's public key for the
\* receiver.
OpMode(mode_id, ident, bundle) == [mode_id |-> mode_id, ident |-> ident, bundle |-> bundle]

\* The element of a set of one element. With it, Only({F(x) : x \in {e}})
\* is F(e) with e evaluated once.
Only(S) == CHOOSE x \in S : TRUE

\* The shared secret of the DHKEM for the DH outputs and the KEM context.
extract_and_expand(dh, kem_context) ==
    labeled_expand(labeled_extract(ZeroSalt, "dh", dh), "prk", kem_context,
                   KexResult_size).out

\* kem::encap / auth_encap: the shared secret and the encapsulated key, or
\* the error of kex.
encap(pk_recip, sender_id_keypair, csprng, early) ==
    Only({ Only({
        IF dh1.res # "Ok" THEN [res |-> dh1.res]
        ELSE IF dh2.res # "Ok" THEN [res |-> dh2.res]
        ELSE [res |-> "Ok",
              shared_secret |->
                  extract_and_expand(
                      dh1.out \o dh2.out,
                      PublicKey_marshal(kp.pk) \o PublicKey_marshal(pk_recip)
                      \o (IF sender_id_keypair = NoIdent THEN <<>>
                          ELSE PublicKey_marshal(sender_id_keypair.pk))),
              encapped_key |-> kp.pk] :
        dh1 \in {kex(kp.sk, pk_recip)},
        dh2 \in {IF sender_id_keypair = NoIdent THEN [res |-> "Ok", out |-> <<>>]
                 ELSE kex(sender_id_keypair.sk, pk_recip)} }) :
        kp \in {gen_keypair(csprng, early)} })

\* kem::decap / auth_decap
decap(sk_recip, pk_sender_id, encapped_key) ==
    Only({
        IF dh1.res # "Ok" THEN [res |-> dh1.res]
        ELSE IF dh2.res # "Ok" THEN [res |-> dh2.res]
        ELSE [res |-> "Ok",
              shared_secret |->
                  extract_and_expand(
                      dh1.out \o dh2.out,
                      PublicKey_marshal(encapped_key)
                      \o PublicKey_marshal(sk_to_pk(sk_recip))
                      \o (IF pk_sender_id = NoIdent THEN <<>>
                          ELSE PublicKey_marshal(pk_sender_id)))] :
        dh1 \in {kex(sk_recip, encapped_key)},
        dh2 \in {IF pk_sender_id = NoIdent THEN [res |-> "Ok", out |-> <<>>]
                 ELSE kex(sk_recip, pk_sender_id)} })

\* The number sum of digits[i] * (radices[1] * ... * radices[i-1]).
RECURSIVE MixedRadix(_, _)
MixedRadix(digits, radices) ==
    IF digits = <<>> THEN 0
    ELSE (Head(digits) % Head(radices))
         + (Head(radices) * MixedRadix(Tail(digits), Tail(radices)))

\* The byte at position i of a string, zero past its end.
ByteAt(bytes, i) == IF i <= Len(bytes) THEN bytes[i] ELSE 0

\* The output HKDF gives for a term of the key schedule, as a number: a
\* different number for every different DH output, KEM context, mode, PSK,
\* PSK id and info among the inputs used here (HKDF without collisions).
HkdfOutput(okm) ==
    LET secret        == okm.prk
        shared_secret == secret.salt
        dh            == shared_secret.prk.ikm
        kem_context   == shared_secret.info
    IN  MixedRadix(
            << ByteAt(dh, 1) \div Cofactor,
               ByteAt(dh, KexResult_size + 1) \div Cofactor,
               ByteAt(kem_context, 1),
               ByteAt(kem_context, PublicKey_size + 1),
               ByteAt(kem_context, (2 * PublicKey_size) + 1),
               okm.info.mode_id,
               ByteAt(secret.ikm, 1),
               ByteAt(okm.info.psk_id_hash.ikm, 1),
               Len(okm.info.info_hash.ikm) >>,
            << SubgroupOrder, SubgroupOrder, GroupOrder, GroupOrder, GroupOrder,
               4, 3, 2, 2 >>)

\* The key schedule: key, base nonce and exporter secret from the shared
\* secret, the mode and info, and the context AeadCtx::new makes of them.
derive_enc_ctx(mode, shared_secret, info) ==
    Only({
        AeadCtx_new(1 + HkdfOutput(labeled_expand(secret, "key", context, Nk).out),
                    Only({[i \in 1..Nn |-> (n \div Pow2(ByteBits * (i - 1)))
                                           % (U8_MAX + 1)] :
                          n \in {HkdfOutput(labeled_expand(secret, "nonce",
                                                           context, Nn).out)}}),
                    labeled_expand(secret, "exp", context, Nh).out) :
        context \in {[mode_id     |-> mode.mode_id,
                      psk_id_hash |-> labeled_extract(ZeroSalt, "pskID_hash",
                                                      mode.bundle.psk_id),
                      psk_hash    |-> labeled_extract(ZeroSalt, "psk_hash",
                                                      mode.bundle.psk),
                      info_hash   |-> labeled_extract(ZeroSalt, "info_hash", info)]},
        secret \in {labeled_extract(shared_secret, "psk_hash", mode.bundle.psk)} })

\* setup::setup_sender
setup_sender(mode, pk_recip, info, csprng, early) ==
    Only({
        IF e.res # "Ok" THEN [res |-> e.res]
        ELSE [res |-> "Ok", encapped_key |-> e.encapped_key,
              ctx |-> derive_enc_ctx(mode, e.shared_secret, info)] :
        e \in {encap(pk_recip, mode.ident, csprng, early)} })

\* setup::setup_receiver
setup_receiver(mode, sk_recip, encapped_key, info) ==
    Only({
        IF d.res # "Ok" THEN [res |-> d.res]
        ELSE [res |-> "Ok", ctx |-> derive_enc_ctx(mode, d.shared_secret, info)] :
        d \in {decap(sk_recip, mode.ident, encapped_key)} })

\* ------------------------------------------------------------ single_shot
\* The context of a call that made none.
NoCtx == AeadCtx_new(0, <<>>, "")

\* What single_shot_seal and single_shot_open return when setup fails.
SetupFailed(res, buf) ==
    [res |-> res, buf |-> buf, encapped_key |-> NoValue, tag |-> NoTag,
     setup |-> res, made |-> NoCtx, ctx |-> NoCtx]

\* single_shot_seal that seals the buffer a second time on the same context
\* and returns the tag of the second seal.
single_shot_seal_twice(mode, pk_recip, info, plaintext, aad, csprng, early, und) ==
    Only({
        IF s.res # "Ok" THEN SetupFailed(s.res, plaintext)
        ELSE Only({
                 Only({
                     [res |-> r.res, buf |-> r.buf,
                      encapped_key |-> IF r.res = "Ok" THEN s.encapped_key ELSE NoValue,
                      tag |-> r.tag, setup |-> "Ok", made |-> s.ctx, ctx |-> r.ctx] :
                     r \in {IF r1.res = "Ok" THEN seal(r1.ctx, r1.buf, aad, und)
                            ELSE r1} }) :
                 r1 \in {seal(s.ctx, plaintext, aad, und)} }) :
        s \in {setup_sender(mode, pk_recip, info, csprng, early)} })

\* single_shot_seal: the result, the buffer, the encapsulated key, the tag,
\* and (for reference) what setup_sender returned, the context it made and
\* the context as seal left it.
single_shot_seal(mode, pk_recip, info, plaintext, aad, csprng, early, und) ==
    Only({
        IF s.res # "Ok" THEN SetupFailed(s.res, plaintext)
        ELSE Only({
                 [res |-> r.res, buf |-> r.buf,
                  encapped_key |-> IF r.res = "Ok" THEN s.encapped_key ELSE NoValue,
                  tag |-> r.tag, setup |-> "Ok", made |-> s.ctx, ctx |-> r.ctx] :
                 r \in {seal(s.ctx, plaintext, aad, und)} }) :
        s \in {setup_sender(mode, pk_recip, info, csprng, early)} })

\* single_shot_open that hands setup_receiver an empty info.
single_shot_open_no_info(mode, sk_recip, encapped_key, info, ciphertext, aad, tag, und) ==
    Only({
        IF s.res # "Ok" THEN SetupFailed(s.res, ciphertext)
        ELSE Only({
                 [res |-> r.res, buf |-> r.buf, setup |-> "Ok",
                  made |-> s.ctx, ctx |-> r.ctx] :
                 r \in {open(s.ctx, ciphertext, aad, tag, und)} }) :
        s \in {setup_receiver(mode, sk_recip, encapped_key, <<>>)} })

\* single_shot_open
single_shot_open(mode, sk_recip, encapped_key, info, ciphertext, aad, tag, und) ==
    Only({
        IF s.res # "Ok" THEN SetupFailed(s.res, ciphertext)
        ELSE Only({
                 [res |-> r.res, buf |-> r.buf, setup |-> "Ok",
                  made |-> s.ctx, ctx |-> r.ctx] :
                 r \in {open(s.ctx, ciphertext, aad, tag, und)} }) :
        s \in {setup_receiver(mode, sk_recip, encapped_key, info)} })

\* The generator outputs the key pairs come from: the recipient's, another
\* recipient's, the sender's identity and the ephemeral one.
SeedOf(b) == [i \in 1..PrivateKey_size |-> IF i = 1 THEN b ELSE 0]
RecipKeypair == gen_keypair(SeedOf(8), TRUE)
OtherKeypair == gen_keypair(SeedOf(16), TRUE)
SenderKeypair == gen_keypair(SeedOf(24), TRUE)
EphemeralSeed == SeedOf(0)

\* A public key of small order.
SmallOrderKey == dalek_PublicKey_from(EncodePoint(SubgroupOrder))

\* The modes of the sender and of the receiver.
SenderModes ==
    {OpMode(0, NoIdent, NoPsk),
     OpMode(1, NoIdent, [psk |-> <<1>>, psk_id |-> <<1>>]),
     OpMode(2, SenderKeypair, NoPsk),
     OpMode(3, SenderKeypair, [psk |-> <<1>>, psk_id |-> <<1>>])}
ReceiverModes ==
    {OpMode(0, NoIdent, NoPsk),
     OpMode(1, NoIdent, [psk |-> <<1>>, psk_id |-> <<1>>]),
     OpMode(2, SenderKeypair.pk, NoPsk),
     OpMode(2, SmallOrderKey, NoPsk)}
    \cup {OpMode(3, SenderKeypair.pk, b) : b \in PskBundles}

\* The receiver's mode that goes with a mode of the sender.
ModeR(mode) ==
    OpMode(mode.mode_id,
           IF mode.ident = NoIdent THEN NoIdent ELSE mode.ident.pk,
           mode.bundle)

\* The state before any single-shot call: no context yet, nothing sent.
SingleShotInit ==
    /\ sender = NoCtx
    /\ receiver = NoCtx
    /\ created = [key |-> 0, nonce |-> <<>>, exporter_secret |-> ""]
    /\ wire = NoMsg
    /\ last = Call("new", "S", "Ok", NoCtx, <<>>, <<>>, NoTag, <<>>, <<>>, <<>>, 0, <<>>)
    /\ nSeal = 0
    /\ nOpen = 0
    /\ usedS = {}
    /\ usedR = {}

\* single_shot_seal(mode, pk_recip, info, plaintext, aad, csprng). sender is
\* the call's aead_ctx as it is when the call returns; the transport takes
\* the encapsulated key, the ciphertext and the tag of a call that succeeded
\* (and, for reference, what the call was given).
SingleShotSeal(mode, pk_recip, info, plaintext, aad, csprng, early) ==
    \E s \in {setup_sender(mode, pk_recip, info, csprng, early)} :
    \E und \in (IF s.res = "Ok" THEN Undefined(s.ctx, plaintext) ELSE {plaintext}) :
    \E r \in {single_shot_seal(mode, pk_recip, info, plaintext, aad, csprng,
                               early, und)} :
        /\ sender' = r.ctx
        /\ last' = [op |-> "single_shot_seal", who |-> "S", mode |-> mode,
                    pk_recip |-> pk_recip, info |-> info,
                    buf_in |-> plaintext, aad |-> aad, res |-> r.res,
                    buf_out |-> r.buf, tag |-> r.tag,
                    encapped_key |-> r.encapped_key,
                    setup |-> r.setup, made |-> r.made]
        /\ wire' = IF r.res = "Ok"
                   THEN [ct |-> r.buf, aad |-> aad, tag |-> r.tag,
                         pt |-> plaintext, idx |-> 0, from |-> r.made,
                         encapped_key |-> r.encapped_key, mode |-> mode,
                         pk_recip |-> pk_recip, info |-> info]
                   ELSE wire
        /\ UNCHANGED <<receiver, created, nSeal, nOpen, usedS, usedR>>

\* The encapsulated keys handed to single_shot_open: the one the transport
\* holds, a key of small order, and another party's public key.
EncappedKeys ==
    (IF wire.idx >= 0 THEN {wire.encapped_key} ELSE {})
    \cup {SmallOrderKey, OtherKeypair.pk}

\* single_shot_open(mode, sk_recip, encapped_key, info, ciphertext, aad, tag).
\* receiver is the call's aead_ctx as it is when the call returns.
SingleShotOpen(mode, sk_recip, encapped_key, info, m) ==
    \E s \in {setup_receiver(mode, sk_recip, encapped_key, info)} :
    \E und \in (IF s.res = "Ok" THEN Undefined(s.ctx, m.ct) ELSE {m.ct}) :
    \E r \in {single_shot_open(mode, sk_recip, encapped_key, info,
                               m.ct, m.aad, m.tag, und)} :
        /\ receiver' = r.ctx
        /\ last' = [op |-> "single_shot_open", who |-> "R", mode |-> mode,
                    sk_recip |-> sk_recip, encapped_key |-> encapped_key,
                    info |-> info, buf_in |-> m.ct, aad |-> m.aad,
                    tag |-> m.tag, res |-> r.res, buf_out |-> r.buf,
                    setup |-> r.setup, made |-> r.made]
        /\ UNCHANGED <<sender, wire, created, nSeal, nOpen, usedS, usedR>>

\* One single_shot_seal, then one single_shot_open: each call makes its own
\* context and drops it.
SingleShotNext ==
    \/ /\ last.op = "new"
       /\ \E mode \in SenderModes, pk_recip \in {RecipKeypair.pk, SmallOrderKey},
             info \in Infos, pt \in Plaintexts :
              SingleShotSeal(mode, pk_recip, info, pt, <<1>>, EphemeralSeed, TRUE)
    \/ /\ last.op = "single_shot_seal"
       /\ \E mode \in ReceiverModes, sk_recip \in {RecipKeypair.sk, OtherKeypair.sk},
             encapped_key \in EncappedKeys, info \in Infos, m \in Deliveries :
              SingleShotOpen(mode, sk_recip, encapped_key, info, m)

SingleShotSpec == SingleShotInit /\ [][SingleShotNext]_vars

\* ------------------------------------------------------------------- C17
\* The call of single_shot_open was given what goes with the call of
\* single_shot_seal whose output the transport holds: the receiver's side of
\* the mode, the private key of pk_recip, the encapsulated key, the same
\* info and aad, the ciphertext and the tag.
OpensTheSealed ==
    /\ last.op = "single_shot_open"
    /\ wire.idx >= 0
    /\ last.mode = ModeR(wire.mode)
    /\ sk_to_pk(last.sk_recip) = wire.pk_recip
    /\ last.encapped_key = wire.encapped_key
    /\ last.info = wire.info
    /\ last.buf_in = wire.ct
    /\ last.aad = wire.aad
    /\ last.tag = wire.tag

\* C17: single_shot_open opens a ciphertext of single_shot_seal: given what
\* goes with the seal, setup_receiver makes the context setup_sender made,
\* and whenever it makes that context the call returns Ok and the buffer
\* holds the message that was sealed.
C17_SingleShotRoundTrip ==
    /\ OpensTheSealed => (last.setup = "Ok" /\ last.made = wire.from)
    /\ (/\ last.op = "single_shot_open"
        /\ wire.idx >= 0
        /\ last.setup = "Ok"
        /\ last.made = wire.from
        /\ last.buf_in = wire.ct
        /\ last.aad = wire.aad
        /\ last.tag = wire.tag) =>
           (last.res = "Ok" /\ last.buf_out = wire.pt)

\* The test's case: mode AuthPsk, a message that is not empty, info and aad
\* not empty, sealed and opened.
C17_Witness ==
    /\ OpensTheSealed
    /\ last.mode.mode_id = 3
    /\ wire.pt # <<>>
    /\ wire.info # <<>>
    /\ wire.aad # <<>>
    /\ last.res = "Ok"
    /\ last.buf_out = wire.pt

\* ------------------------------------------------------------------- C18
\* The AEAD refuses the ciphertext, aad and tag of the call under the
\* context setup_receiver made.
DecryptionFails ==
    /\ last.setup = "Ok"
    /\ ~decrypt_in_place_detached(last.made.encryptor,
                                  mix_nonce(last.made.nonce, last.made.seq),
                                  last.aad, last.buf_in, last.tag).ok

\* C18: single_shot_open reports its failures as its documentation says: an
\* error during the key exchange is returned as InvalidKeyExchange, and an
\* error during decryption is returned as HpkeError::Encryption.
C18_OpenErrorsAsDocumented ==
    last.op = "single_shot_open" =>
        /\ last.setup # "Ok" => last.res = "InvalidKeyExchange"
        /\ DecryptionFails => last.res = "Encryption"

\* ------------------------------------------------------------------- C19
\* Some keystream byte over the buffer of the most recent seal is not zero.
KeystreamNotZero ==
    \E i \in 1..Len(last.buf_in) :
        KeyStream(last.pre.encryptor, last.nonce, i) # 0

CallsBefore ==
    IF last.op = "seal"
    THEN (IF last.res = "Ok" THEN nSeal - 1 ELSE nSeal)
    ELSE OpensBefore

\* C20: the nonce every seal and open hands to the AEAD is the bytewise XOR
\* of the base nonce AeadCtx::new was given with the sequence counter as it
\* was before the call's increment, that is with the big-endian count of
\* the context's earlier successful calls; the first call on a fresh
\* context uses the base nonce itself.
C20_NonceIsBaseXorSeq ==
    (last.op \in {"seal", "open"} /\ last.res # "SeqOverflow") =>
        /\ Len(last.nonce) = Nn
        /\ \A i \in 1..Nn :
               last.nonce[i] = BitXor(created.nonce[i], last.pre.seq[i])
        /\ BigEndian(last.pre.seq) = CallsBefore
        /\ CallsBefore = 0 => last.nonce = created.nonce

\* A successful open at a sequence number that is not zero, under a base
\* nonce that is not zero: the nonce is neither of the two.
C20_Witness ==
    /\ last.op = "open"
    /\ last.res = "Ok"
    /\ last.pre.seq # Seq_default
    /\ last.nonce # created.nonce
    /\ last.nonce # last.pre.seq

\* The first seal on a fresh context: the nonce is the base nonce.
C20_WitnessFirst ==
    /\ last.op = "seal"
    /\ last.res = "Ok"
    /\ nSeal = 1
    /\ last.nonce = created.nonce
    /\ ~AllZero(created.nonce)

\* ------------------------------------------------------------------- C21
\* The sequence counters of Nn bytes.
SeqValues == [1..Nn -> Byte]

\* C21: increment_seq treats the array as a big-endian unsigned integer of
\* Nn bytes: for a value below 2^(8*Nn) - 1 it returns Ok and the array
\* holds the value plus one; it returns Err if and only if every byte was
\* 0xFF on entry. This holds for every counter a context holds or held
\* before its most recent call (a sender's counter takes every value of Nn
\* bytes), and the counter a successful seal or open leaves is the one
\* increment_seq makes of the counter before the call.
C21_IncrementIsBigEndianPlusOne ==
    /\ \A arr \in {sender.seq, receiver.seq, last.pre.seq} :
           /\ arr \in SeqValues
           /\ \A r \in {increment_seq(arr)} :
                  /\ r.arr \in SeqValues
                  /\ BigEndian(arr) < SeqSpace - 1 =>
                         (r.ok /\ BigEndian(r.arr) = BigEndian(arr) + 1)
                  /\ (~r.ok) <=> AllMax(arr)
    /\ (last.op \in {"seal", "open"} /\ last.res = "Ok") =>
           CtxOf(last.who).seq = increment_seq(last.pre.seq).arr

\* A successful seal whose increment carries: the last byte of the counter
\* was 0xFF and a byte before it was not, and the counter read as a number
\* went up by one.
C21_Witness ==
    /\ last.op = "seal"
    /\ last.res = "Ok"
    /\ last.pre.seq[Nn] = U8_MAX
    /\ ~AllMax(last.pre.seq)
    /\ sender.seq[Nn] = 0
    /\ BigEndian(sender.seq) = BigEndian(last.pre.seq) + 1

\* A successful seal whose increment overflows: every byte was 0xFF.
C21_WitnessOverflow ==
    /\ last.op = "seal"
    /\ last.res = "Ok"
    /\ AllMax(last.pre.seq)
    /\ ~increment_seq(last.pre.seq).ok
    /\ sender.overflowed

\* ------------------------------------------------------------------- C22
\* What setup_sender returns for the arguments of the most recent call of
\* single_shot_seal.
SetupOfSeal == setup_sender(last.mode, last.pk_recip, last.info, EphemeralSeed, TRUE)

\* C22: single_shot_seal performs setup_sender and then exactly one seal.
\* If setup_sender fails, its error is returned unchanged, the plaintext
\* buffer is as it was given and no context was sealed on. If it succeeds,
\* the result, the buffer and the tag are those of one seal on the fresh
\* context setup made (which is left with a counter of one when that seal
\* succeeds and of zero when it fails), and a successful call returns the
\* encapsulated key of setup_sender with the tag of that seal.
C22_SetupThenOneSeal ==
    last.op = "single_shot_seal" =>
        \A s \in {SetupOfSeal} :
            /\ last.setup = s.res
            /\ s.res # "Ok" =>
                   /\ last.res = s.res
                   /\ last.buf_out = last.buf_in
                   /\ last.tag = NoTag
                   /\ sender = NoCtx
            /\ s.res = "Ok" =>
                   /\ last.made = s.ctx
                   /\ s.ctx.seq = Seq_default
                   /\ \E und \in Undefined(s.ctx, last.buf_in) :
                          \A r \in {seal(s.ctx, last.buf_in, last.aad, und)} :
                              /\ last.res = r.res
                              /\ last.buf_out = r.buf
                              /\ last.tag = r.tag
                              /\ sender = r.ctx
                   /\ BigEndian(sender.seq) = (IF last.res = "Ok" THEN 1 ELSE 0)
                   /\ last.res = "Ok" =>
                          /\ last.encapped_key = s.encapped_key
                          /\ last.tag = Mac(s.ctx.encryptor,
                                            mix_nonce(s.ctx.nonce, Seq_default),
                                            last.aad, last.buf_out)

\* setup_sender fails on a recipient key of small order: the call returns
\* its error and the plaintext, which is not empty, is as it was.
C22_Witness ==
    /\ last.op = "single_shot_seal"
    /\ last.pk_recip = SmallOrderKey
    /\ last.setup = "InvalidKeyExchange"
    /\ last.res = "InvalidKeyExchange"
    /\ last.buf_in # <<>>
    /\ last.buf_out = last.buf_in
    /\ sender = NoCtx

\* setup_sender succeeds and the one seal succeeds: the call returns the
\* encapsulated key and a tag, and the context has sealed once.
C22_WitnessOk ==
    /\ last.op = "single_shot_seal"
    /\ last.setup = "Ok"
    /\ last.res = "Ok"
    /\ last.buf_in # <<>>
    /\ last.encapped_key # NoValue
    /\ last.tag # NoTag
    /\ BigEndian(sender.seq) = 1

\* ------------------------------------------------------------------- C23
\* C23: when seal returns Encryption (the AEAD refused the buffer), the
\* sender's context is as it was before the call: seq and the overflowed
\* flag (which was not set) are unchanged, and so is everything else. The
\* nonce of the failed call is the nonce of the next seal, whatever that
\* seal is given, it is the nonce of no successful seal so far, and seq still
\* counts the successful seals: no sequence number is skipped.
C23_EncryptionErrorKeepsSeq ==
    (last.op = "seal" /\ last.res = "Encryption") =>
        /\ sender.seq = last.pre.seq
        /\ sender.overflowed = last.pre.overflowed
        /\ ~sender.overflowed
        /\ sender = last.pre
        /\ last.nonce = NextNonce(sender)
        /\ last.nonce \notin usedS
        /\ BigEndian(sender.seq) = nSeal
        /\ \A pt \in Plaintexts, aad \in AADs :
               \A r \in {seal(sender, pt, aad, pt)} :
                   /\ r.res \in {"Ok", "Encryption"}
                   /\ r.nonce = last.nonce

\* A seal of a buffer the AEAD refuses, on a context that has sealed before:
\* Encryption is returned and the counter stays where it was.
C23_Witness ==
    /\ last.op = "seal"
    /\ last.res = "Encryption"
    /\ Len(last.buf_in) > AeadPMax
    /\ last.pre.seq # Seq_default
    /\ sender.seq = last.pre.seq
    /\ nSeal > 0

\* ------------------------------------------------------------------- C24
\* The (ciphertext, aad, tag) triples that verify under ctx's key and the
\* given nonce: what a seal of one of the callers' messages under that nonce
\* leaves.
SealedUnder(ctx, nonce) ==
    {[ct |-> e.buf, aad |-> aad, tag |-> e.tag] :
        <<e, aad>> \in
            {<<encrypt_in_place_detached(ctx.encryptor, nonce, a, pt), a>> :
                pt \in {p \in Plaintexts : Len(p) <= AeadPMax}, a \in AADs}}

\* The transport's message has been opened successfully by the receiver:
\* its tag is a tag under the nonce of a successful open.
WireWasOpened == wire.idx >= 0 /\ wire.tag.nonce \in usedR

\* C24: replay is rejected. The receiver's successful opens never outnumber
\* the sender's successful seals. A triple the receiver opens successfully
\* verifies under the nonce of that open, and from then on a triple that
\* verifies under the nonce of any successful open so far is not accepted:
\* open returns InvalidTag or SeqOverflow and leaves seq (and the whole
\* context) as it is. So is the transport's message when it is delivered
\* again.
C24_ReplayRejected ==
    /\ nOpen <= nSeal
    /\ (last.op = "open" /\ last.res = "Ok") =>
           /\ last.nonce \in usedR
           /\ [ct |-> last.buf_in, aad |-> last.aad, tag |-> last.tag]
                  \in SealedUnder(receiver, last.nonce)
           /\ \A n \in usedR : \A m \in SealedUnder(receiver, n) :
                  \A und \in Undefined(receiver, m.ct) :
                      \A r \in {open(receiver, m.ct, m.aad, m.tag, und)} :
                          /\ r.res \in {"InvalidTag", "SeqOverflow"}
                          /\ r.ctx = receiver
    /\ (OpenedWire /\ last.tag.nonce \in (usedR \ {last.nonce})) =>
           /\ last.res \in {"InvalidTag", "SeqOverflow"}
           /\ receiver.seq = last.pre.seq
           /\ receiver = last.pre

\* The transport delivers again the message the receiver has opened: the
\* second open returns InvalidTag and seq stays where the first open left it.
C24_Witness ==
    /\ OpenedWire
    /\ WireWasOpened
    /\ nOpen = nSeal
    /\ nOpen >= 2
    /\ last.res = "InvalidTag"
    /\ receiver.seq = last.pre.seq
    /\ ~receiver.overflowed

\* The same on a receiver that has opened the last message its counter
\* allows: the replay returns SeqOverflow.
C24_WitnessOverflow ==
    /\ OpenedWire
    /\ WireWasOpened
    /\ nOpen = SeqSpace
    /\ last.res = "SeqOverflow"

\* ------------------------------------------------------------------- C25
\* C25: single_shot_seal and single_shot_open never return SeqOverflow.
\* Each returns Ok, the error of its setup or the error of the AEAD; when
\* setup succeeds, the context the one seal or open runs on is fresh (seq
\* is zero and overflowed is not set), and the call leaves it with a counter
\* of one if it succeeded and of zero if not, overflowed still not set.
C25_SingleShotNeverSeqOverflow ==
    last.op \in {"single_shot_seal", "single_shot_open"} =>
        /\ last.res # "SeqOverflow"
        /\ last.res \in {"Ok", "InvalidKeyExchange",
                          IF last.op = "single_shot_seal" THEN "Encryption"
                          ELSE "InvalidTag"}
        /\ last.setup = "Ok" =>
               /\ last.made.seq = Seq_default
               /\ ~last.made.overflowed
               /\ ~CtxOf(last.who).overflowed
               /\ BigEndian(CtxOf(last.who).seq) = (IF last.res = "Ok" THEN 1 ELSE 0)
        /\ last.setup # "Ok" => last.res = last.setup

\* A single_shot_open that succeeds after a single_shot_seal that succeeded:
\* each ran on its own fresh context, and each context has a counter of one.
C25_Witness ==
    /\ last.op = "single_shot_open"
    /\ last.setup = "Ok"
    /\ last.res = "Ok"
    /\ last.made.seq = Seq_default
    /\ BigEndian(receiver.seq) = 1
    /\ BigEndian(sender.seq) = 1
    /\ ~receiver.overflowed

\* A single_shot_seal whose seal fails: Encryption, not SeqOverflow.
C25_WitnessSealError ==
    /\ last.op = "single_shot_seal"
    /\ last.setup = "Ok"
    /\ last.res = "Encryption"
    /\ sender.seq = Seq_default

\* ------------------------------------------------------------------- C26
\* ctx holds the key, the base nonce and the exporter secret AeadCtx::new
\* was given.
HoldsCreated(ctx) ==
    /\ ctx.encryptor = created.key
    /\ ctx.nonce = created.nonce
    /\ ctx.exporter_secret = created.exporter_secret

\* C26: seal and open change nothing in a context except seq and
\* overflowed. In every reachable state both contexts hold the AEAD key, the
\* base nonce and the exporter secret AeadCtx::new was given, and after a
\* seal or an open, successful or not, the context of the call is the one
\* before the call but for seq and overflowed; the other party's context
\* was not touched by it.
C26_OnlySeqAndOverflowedChange ==
    /\ HoldsCreated(sender)
    /\ HoldsCreated(receiver)
    /\ last.op \in {"seal", "open"} =>
           /\ HoldsCreated(last.pre)
           /\ CtxOf(last.who) =
                  [last.pre EXCEPT !.seq = CtxOf(last.who).seq,
                                   !.overflowed = CtxOf(last.who).overflowed]
           /\ last.res # "Ok" => CtxOf(last.who) = last.pre

\* A successful seal that is not the sender's first, under a base nonce that
\* is not zero: seq has moved, and key, base nonce and exporter secret are
\* those of AeadCtx::new.
C26_Witness ==
    /\ last.op = "seal"
    /\ last.res = "Ok"
    /\ nSeal >= 2
    /\ sender.seq # last.pre.seq
    /\ ~AllZero(created.nonce)
    /\ last.nonce # created.nonce
    /\ sender.nonce = created.nonce
    /\ sender.encryptor = created.key

\* A failed open (InvalidTag) on a receiver that has opened before.
C26_WitnessFailedOpen ==
    /\ last.op = "open"
    /\ last.res = "InvalidTag"
    /\ nOpen >= 1
    /\ HoldsCreated(receiver)
    /\ receiver = last.pre

\* The seal and the open that set overflowed: both contexts overflowed, the
\* rest as created.
C26_WitnessOverflowed ==
    /\ sender.overflowed
    /\ receiver.overflowed
    /\ HoldsCreated(sender)
    /\ HoldsCreated(receiver)

====
